---- MODULE Spec2Model ----
(***************************************************************************)
(* svgify-react: the icon pipeline of src/src/cli.ts.                      *)
(*                                                                         *)
(* A string is a sequence of one-character strings, so that the regular    *)
(* expressions of the source act on characters as they do in the code.     *)
(*                                                                         *)
(*   Spec       one run of generate(userConfig) over an input directory    *)
(*   SpecFair   the same run, which takes every step it can take           *)
(*   SpecNames  the name derivation of processIcon over all short names    *)
(*   SpecColor  the colour normalisation of processIcon over markup        *)
(***************************************************************************)
EXTENDS Integers, Sequences, FiniteSets, TLC

VARIABLES
    userConfig,      \* the argument of generate
    config,          \* { ...DEFAULT_CONFIG, ...userConfig }, once merged
    fsDirs,          \* the directories that exist
    inputListing,    \* fs.readdirSync(inputDir), in the host's order
    pc,              \* position of the run in generate
    exitCode,        \* argument of process.exit, 0 while not called
    svgFiles,        \* generate's svgFiles
    idx,             \* position of the for-of loop over svgFiles
    envOk,           \* per processed file: did the read and svgo succeed
    processedIcons,  \* generate's processedIcons
    wIdx,            \* position of the for-of loop over processedIcons
    outFiles,        \* output directory: file name -> generated content
    writes,          \* the fs.writeFileSync calls, in order
    io,              \* counts of the other I/O calls made
    hook,            \* outcome of the post-generate command
    nameIn,          \* SpecNames: a file name
    nameOut,         \* SpecNames: what processIcon derives from it
    colorIn,         \* SpecColor: attributes of one element
    colorOut         \* SpecColor: the markup after normalisation

vars == << userConfig, config, fsDirs, inputListing, pc, exitCode, svgFiles,
           idx, envOk, processedIcons, wIdx, outFiles, writes, io, hook,
           nameIn, nameOut, colorIn, colorOut >>

runVars == << userConfig, config, fsDirs, inputListing, pc, exitCode,
              svgFiles, idx, envOk, processedIcons, wIdx, outFiles, writes,
              io, hook >>

----------------------------------------------------------------------------
\* Bounds of the model

\* longest file name SpecNames enumerates
MaxNameLen == 5

\* most entries in the input directory
MaxFiles == 2

\* most attributes on the element SpecColor enumerates
MaxAttrs == 2

----------------------------------------------------------------------------
\* Characters

UpperSeq == << "A", "B", "C", "D", "E", "F", "G", "H", "I", "J", "K", "L", "M",
               "N", "O", "P", "Q", "R", "S", "T", "U", "V", "W", "X", "Y", "Z" >>

LowerSeq == << "a", "b", "c", "d", "e", "f", "g", "h", "i", "j", "k", "l", "m",
               "n", "o", "p", "q", "r", "s", "t", "u", "v", "w", "x", "y", "z" >>

UpperChars == { UpperSeq[i] : i \in DOMAIN UpperSeq }

LowerChars == { LowerSeq[i] : i \in DOMAIN LowerSeq }

DigitChars == { "0", "1", "2", "3", "4", "5", "6", "7", "8", "9" }

\* \s of a regular expression, as far as the model's alphabet goes
SpaceChars == { " ", "\t", "\n" }

\* \w of a regular expression
WordChars == UpperChars \cup LowerChars \cup DigitChars \cup { "_" }

\* String.prototype.toLowerCase on one character
LowerOf(c) ==
    IF c \in UpperChars
    THEN LowerSeq[CHOOSE i \in DOMAIN UpperSeq : UpperSeq[i] = c]
    ELSE c

\* String.prototype.toUpperCase on one character
UpperOf(c) ==
    IF c \in LowerChars
    THEN UpperSeq[CHOOSE i \in DOMAIN LowerSeq : LowerSeq[i] = c]
    ELSE c

toLowerCase(s) == [i \in DOMAIN s |-> LowerOf(s[i])]

\* s.slice(from) with a 1-based index
DropTo(s, from) == SubSeq(s, from, Len(s))

\* does pat occur in s at position i
MatchAt(s, i, pat) ==
    /\ i >= 1
    /\ i + Len(pat) - 1 <= Len(s)
    /\ SubSeq(s, i, i + Len(pat) - 1) = pat

\* the same under the i flag
MatchAtNoCase(s, i, pat) ==
    /\ i >= 1
    /\ i + Len(pat) - 1 <= Len(s)
    /\ toLowerCase(SubSeq(s, i, i + Len(pat) - 1)) = toLowerCase(pat)

endsWith(s, suffix) == MatchAt(s, Len(s) - Len(suffix) + 1, suffix)

\* first position of pat in s, 0 when there is none
IndexOf(s, pat) ==
    IF \E i \in 1..Len(s) : MatchAt(s, i, pat)
    THEN CHOOSE i \in 1..Len(s) :
            /\ MatchAt(s, i, pat)
            /\ \A j \in 1..(i - 1) : ~MatchAt(s, j, pat)
    ELSE 0

\* s.replace(pat, '') with a string pattern: the first occurrence only
RemoveFirst(s, pat) ==
    LET i == IndexOf(s, pat)
    IN  IF i = 0 THEN s
        ELSE SubSeq(s, 1, i - 1) \o DropTo(s, i + Len(pat))

RECURSIVE Filter(_, _)
\* the characters of s that are in keep
Filter(s, keep) ==
    IF s = << >> THEN << >>
    ELSE (IF Head(s) \in keep THEN << Head(s) >> ELSE << >>)
            \o Filter(Tail(s), keep)

RECURSIVE CollapseRuns(_, _)
\* s.replace(/[set]+/g, '-')
CollapseRuns(s, set) ==
    IF s = << >> THEN << >>
    ELSE IF Head(s) \in set
         THEN IF Len(s) > 1 /\ s[2] \in set
              THEN CollapseRuns(Tail(s), set)
              ELSE << "-" >> \o CollapseRuns(Tail(s), set)
         ELSE << Head(s) >> \o CollapseRuns(Tail(s), set)

RECURSIVE TrimLeft(_, _)
TrimLeft(s, set) ==
    IF s # << >> /\ Head(s) \in set THEN TrimLeft(Tail(s), set) ELSE s

RECURSIVE TrimRight(_, _)
TrimRight(s, set) ==
    IF s # << >> /\ s[Len(s)] \in set
    THEN TrimRight(SubSeq(s, 1, Len(s) - 1), set)
    ELSE s

\* String.prototype.trim
trim(s) == TrimRight(TrimLeft(s, SpaceChars), SpaceChars)

----------------------------------------------------------------------------
\* Literals of the source

DotSvg == << ".", "s", "v", "g" >>

IconSuffix == << "I", "c", "o", "n" >>

\* [\s\-._]
SeparatorChars == SpaceChars \cup { "-", ".", "_" }

\* [a-zA-Z0-9-]
NameChars == UpperChars \cup LowerChars \cup DigitChars \cup { "-" }

----------------------------------------------------------------------------
\* Name sanitizer

\* the sanitizer with the trimming of hyphens left out
sanitizeFileName_noTrim(filename) ==
    toLowerCase(
        CollapseRuns(
            Filter(CollapseRuns(RemoveFirst(filename, DotSvg), SeparatorChars),
                   NameChars),
            { "-" }))

sanitizeFileName(filename) ==
    toLowerCase(
        CollapseRuns(
            TrimRight(
                TrimLeft(
                    Filter(
                        CollapseRuns(RemoveFirst(filename, DotSvg),
                                     SeparatorChars),
                        NameChars),
                    { "-" }),
                { "-" }),
            { "-" }))

RECURSIVE split(_, _)
\* str.split(sep) for a one-character separator
split(s, sep) ==
    IF \E i \in 1..Len(s) : s[i] = sep
    THEN LET i == CHOOSE i \in 1..Len(s) :
                     s[i] = sep /\ \A j \in 1..(i - 1) : s[j] # sep
         IN  << SubSeq(s, 1, i - 1) >> \o split(DropTo(s, i + 1), sep)
    ELSE << s >>

RECURSIVE join(_)
\* words.join('')
join(words) ==
    IF words = << >> THEN << >> ELSE Head(words) \o join(Tail(words))

\* word.charAt(0).toUpperCase() + word.slice(1)
Capitalize(word) ==
    IF word = << >> THEN << >> ELSE << UpperOf(word[1]) >> \o Tail(word)

toPascalCase(str) ==
    LET words == split(str, "-")
    IN  join([i \in DOMAIN words |-> Capitalize(words[i])])

toCamelCase(str) ==
    LET pascal == toPascalCase(str)
    IN  IF pascal = << >> THEN << >>
        ELSE << LowerOf(pascal[1]) >> \o Tail(pascal)

----------------------------------------------------------------------------
\* Attribute translator

Quote == << "\"" >>

None == << "n", "o", "n", "e" >>

CurrentColor == << "c", "u", "r", "r", "e", "n", "t", "C", "o", "l", "o", "r" >>

FillOpen == << "f", "i", "l", "l", "=", "\"" >>

StrokeOpen == << "s", "t", "r", "o", "k", "e", "=", "\"" >>

SvgOpen == << "<", "s", "v", "g" >>

SvgClose == << "<", "/", "s", "v", "g", ">" >>

SVG_ATTR_MAP ==
  << << <<"c", "l", "i", "p", "-", "p", "a", "t", "h">>,
        <<"c", "l", "i", "p", "P", "a", "t", "h">> >>,
     << <<"c", "l", "i", "p", "-", "r", "u", "l", "e">>,
        <<"c", "l", "i", "p", "R", "u", "l", "e">> >>,
     << <<"f", "i", "l", "l", "-", "r", "u", "l", "e">>,
        <<"f", "i", "l", "l", "R", "u", "l", "e">> >>,
     << <<"f", "i", "l", "l", "-", "o", "p", "a", "c", "i", "t", "y">>,
        <<"f", "i", "l", "l", "O", "p", "a", "c", "i", "t", "y">> >>,
     << <<"s", "t", "r", "o", "k", "e", "-", "w", "i", "d", "t", "h">>,
        <<"s", "t", "r", "o", "k", "e", "W", "i", "d", "t", "h">> >>,
     << <<"s", "t", "r", "o", "k", "e", "-", "l", "i", "n", "e", "c", "a", "p">>,
        <<"s", "t", "r", "o", "k", "e", "L", "i", "n", "e", "c", "a", "p">> >>,
     << <<"s", "t", "r", "o", "k", "e", "-", "l", "i", "n", "e", "j", "o", "i", "n">>,
        <<"s", "t", "r", "o", "k", "e", "L", "i", "n", "e", "j", "o", "i", "n">> >>,
     << <<"s", "t", "r", "o", "k", "e", "-", "m", "i", "t", "e", "r", "l", "i", "m", "i", "t">>,
        <<"s", "t", "r", "o", "k", "e", "M", "i", "t", "e", "r", "l", "i", "m", "i", "t">> >>,
     << <<"s", "t", "r", "o", "k", "e", "-", "d", "a", "s", "h", "a", "r", "r", "a", "y">>,
        <<"s", "t", "r", "o", "k", "e", "D", "a", "s", "h", "a", "r", "r", "a", "y">> >>,
     << <<"s", "t", "r", "o", "k", "e", "-", "d", "a", "s", "h", "o", "f", "f", "s", "e", "t">>,
        <<"s", "t", "r", "o", "k", "e", "D", "a", "s", "h", "o", "f", "f", "s", "e", "t">> >>,
     << <<"s", "t", "r", "o", "k", "e", "-", "o", "p", "a", "c", "i", "t", "y">>,
        <<"s", "t", "r", "o", "k", "e", "O", "p", "a", "c", "i", "t", "y">> >>,
     << <<"s", "t", "o", "p", "-", "c", "o", "l", "o", "r">>,
        <<"s", "t", "o", "p", "C", "o", "l", "o", "r">> >>,
     << <<"s", "t", "o", "p", "-", "o", "p", "a", "c", "i", "t", "y">>,
        <<"s", "t", "o", "p", "O", "p", "a", "c", "i", "t", "y">> >>,
     << <<"x", "l", "i", "n", "k", ":", "h", "r", "e", "f">>,
        <<"x", "l", "i", "n", "k", "H", "r", "e", "f">> >>,
     << <<"x", "m", "l", ":", "s", "p", "a", "c", "e">>,
        <<"x", "m", "l", "S", "p", "a", "c", "e">> >>,
     << <<"x", "m", "l", "n", "s", ":", "x", "l", "i", "n", "k">>,
        <<"x", "m", "l", "n", "s", "X", "l", "i", "n", "k">> >> >>

RECURSIVE ReplaceAttrName(_, _, _, _)
\* result.replace(/\bkebab(?=\s*=)/gi, camel); prev is the character before s
ReplaceAttrName(s, prev, kebab, camel) ==
    IF s = << >> THEN << >>
    ELSE IF /\ prev \notin WordChars
            /\ MatchAtNoCase(s, 1, kebab)
            /\ LET after == TrimLeft(DropTo(s, Len(kebab) + 1), SpaceChars)
               IN  after # << >> /\ Head(after) = "="
         THEN camel \o ReplaceAttrName(DropTo(s, Len(kebab) + 1),
                                       s[Len(kebab)], kebab, camel)
         ELSE << Head(s) >> \o ReplaceAttrName(Tail(s), Head(s), kebab, camel)

RECURSIVE ConvertFrom(_, _)
\* the forEach over Object.entries(SVG_ATTR_MAP), from entry k on
ConvertFrom(result, k) ==
    IF k > Len(SVG_ATTR_MAP) THEN result
    ELSE ConvertFrom(
            ReplaceAttrName(result, "", SVG_ATTR_MAP[k][1], SVG_ATTR_MAP[k][2]),
            k + 1)

convertSvgAttributesToCamelCase(svgContent) == ConvertFrom(svgContent, 1)

RECURSIVE ReplaceColor(_, _)
\* s.replace(/attr="(?!none|currentColor)[^"]*"/gi, 'attr="currentColor"')
\* where open is attr="
ReplaceColor(s, open) ==
    IF s = << >> THEN << >>
    ELSE LET j    == Len(open) + 1
             rest == DropTo(s, j)
             q    == IndexOf(rest, Quote)
         IN  IF /\ MatchAtNoCase(s, 1, open)
                /\ ~MatchAtNoCase(s, j, None)
                /\ ~MatchAtNoCase(s, j, CurrentColor)
                /\ q > 0
             THEN open \o CurrentColor \o Quote
                    \o ReplaceColor(DropTo(rest, q + 1), open)
             ELSE << Head(s) >> \o ReplaceColor(Tail(s), open)

\* the two colour replacements of processIcon
normalizeColors(markup) ==
    ReplaceColor(ReplaceColor(markup, FillOpen), StrokeOpen)

\* s.replace(/<svg[^>]*>/, '')
StripSvgOpen(s) ==
    LET i == IndexOf(s, SvgOpen)
        q == IF i = 0 THEN 0 ELSE IndexOf(DropTo(s, i + Len(SvgOpen)), << ">" >>)
    IN  IF i = 0 \/ q = 0 THEN s
        ELSE SubSeq(s, 1, i - 1) \o DropTo(s, i + Len(SvgOpen) + q)

\* the chain of replacements that yields optimizedSvg from result.data
InnerSvg(data) ==
    convertSvgAttributesToCamelCase(
        normalizeColors(trim(RemoveFirst(StripSvgOpen(data), SvgClose))))

----------------------------------------------------------------------------
\* Icon processor

Null == [null |-> TRUE]

\* what the file system and svgo can answer for one file
SvgoData ==
    { << "<", "s", "v", "g", " ", "f", "i", "l", "l", "=", "\"", "c", "u", "r",
         "r", "e", "n", "t", "C", "o", "l", "o", "r", "\"", ">", "<", "g", " ",
         "f", "i", "l", "l", "=", "\"", "r", "e", "d", "\"", " ", "f", "i", "l",
         "l", "-", "r", "u", "l", "e", "=", "\"", "a", "\"", "/", ">", "<", "/",
         "s", "v", "g", ">" >> }

\* optimizedSvg for each answer of svgo, computed once
OptimizedSvgOf == [d \in SvgoData |-> InnerSvg(d)]

EnvOutcomes ==
    { [kind |-> "readError"], [kind |-> "optimizeError"] }
        \cup { [kind |-> "ok", data |-> d] : d \in SvgoData }

\* processIcon pushing a record for a file whose read or svgo call threw
processIcon_noCatch(filename, env) ==
    IF ~endsWith(filename, DotSvg) THEN Null
    ELSE LET sanitizedName == sanitizeFileName(filename)
         IN  IF sanitizedName = << >> THEN Null
             ELSE [ originalFile  |-> filename,
                    sanitizedName |-> sanitizedName,
                    componentName |-> toPascalCase(sanitizedName) \o IconSuffix,
                    camelCaseName |-> toCamelCase(sanitizedName),
                    optimizedSvg  |-> IF env.kind = "ok"
                                      THEN OptimizedSvgOf[env.data] ELSE << >> ]

\* processIcon(filename, config); env is what readFileSync and optimize do.
\* svgContent, the raw markup, is kept by the code for diagnostics only and
\* is env's to choose; the record here carries the fields that are emitted.
processIcon(filename, env) ==
    IF ~endsWith(filename, DotSvg) THEN Null
    ELSE IF env.kind # "ok" THEN Null
    ELSE LET sanitizedName == sanitizeFileName(filename)
         IN  IF sanitizedName = << >> THEN Null
             ELSE [ originalFile  |-> filename,
                    sanitizedName |-> sanitizedName,
                    componentName |-> toPascalCase(sanitizedName) \o IconSuffix,
                    camelCaseName |-> toCamelCase(sanitizedName),
                    optimizedSvg  |-> OptimizedSvgOf[env.data] ]

----------------------------------------------------------------------------
\* Configuration

\* an object without keys
Empty == [k \in {} |-> TRUE]

Has(obj, key) == key \in DOMAIN obj

\* !obj[key] for a string field: absent or the empty string
Falsy(obj, key) == ~Has(obj, key) \/ obj[key] = ""

DEFAULT_CONFIG ==
    [ iconMode     |-> "both",
      typescript   |-> TRUE,
      className    |-> "icon",
      postGenerate |-> "",
      svgoConfig   |-> "default" ]

\* { ...DEFAULT_CONFIG, ...userConfig }
MergeConfig(user) ==
    [k \in DOMAIN DEFAULT_CONFIG \cup DOMAIN user |->
        IF k \in DOMAIN user THEN user[k] ELSE DEFAULT_CONFIG[k]]

\* the validation with && in place of ||
ConfigMissing_both(user) == Falsy(user, "inputDir") /\ Falsy(user, "outputDir")

\* !userConfig.inputDir || !userConfig.outputDir
ConfigMissing(user) == Falsy(user, "inputDir") \/ Falsy(user, "outputDir")

\* config.iconMode || 'both'
ModeOf(cfg) == IF Falsy(cfg, "iconMode") THEN "both" ELSE cfg.iconMode

getFileExtension(typescript) ==
    IF typescript THEN << "t", "s", "x" >> ELSE << "j", "s", "x" >>

\* ext === 'tsx' ? 'ts' : 'js'
IndexExtension(ext) ==
    IF ext = << "t", "s", "x" >> THEN << "t", "s" >> ELSE << "j", "s" >>

FileName(base, ext) == base \o << "." >> \o ext

RegistryBase == << "I", "c", "o", "n", "R", "e", "g", "i", "s", "t", "r", "y" >>

WrapperBase == << "I", "c", "o", "n" >>

IndexBase == << "i", "n", "d", "e", "x" >>

----------------------------------------------------------------------------
\* Template generators: the parts of the generated text that depend on the
\* icons and the configuration

generateIconComponent(icon, cfg) ==
    [ kind          |-> "component",
      componentName |-> icon.componentName,
      originalFile  |-> icon.originalFile,
      children      |-> icon.optimizedSvg,
      isTS          |-> cfg.typescript,
      baseClassName |-> IF Falsy(cfg, "className") THEN "icon"
                        ELSE cfg.className ]

\* the registry listing the icons last to first
generateIconRegistry_reversed(icons, cfg) ==
    LET rev == [i \in DOMAIN icons |-> icons[Len(icons) + 1 - i]]
    IN  [ kind           |-> "registry",
          isTS           |-> cfg.typescript,
          imports        |-> [i \in DOMAIN rev |-> rev[i].componentName],
          iconNames      |-> [i \in DOMAIN rev |-> rev[i].camelCaseName],
          iconComponents |-> [i \in DOMAIN rev |->
                                << rev[i].camelCaseName,
                                   rev[i].componentName >>] ]

generateIconRegistry(icons, cfg) ==
    [ kind           |-> "registry",
      isTS           |-> cfg.typescript,
      imports        |-> [i \in DOMAIN icons |-> icons[i].componentName],
      iconNames      |-> [i \in DOMAIN icons |-> icons[i].camelCaseName],
      iconComponents |-> [i \in DOMAIN icons |->
                            << icons[i].camelCaseName,
                               icons[i].componentName >>] ]

generateIconWrapper(cfg) ==
    [ kind          |-> "wrapper",
      isTS          |-> cfg.typescript,
      baseClassName |-> IF Falsy(cfg, "className") THEN "icon"
                        ELSE cfg.className ]

\* the index with the direct group emitted in every mode
generateIndexFile_alwaysDirect(icons, cfg) ==
    LET mode == ModeOf(cfg)
    IN  [ kind            |-> "index",
          registryExports |-> mode = "registry" \/ mode = "both",
          directExports   |-> TRUE,
          direct          |-> [i \in DOMAIN icons |-> icons[i].componentName],
          total           |-> Len(icons) ]

generateIndexFile(icons, cfg) ==
    LET mode == ModeOf(cfg)
    IN  [ kind            |-> "index",
          registryExports |-> mode = "registry" \/ mode = "both",
          directExports   |-> mode = "direct" \/ mode = "both",
          direct          |-> IF mode = "direct" \/ mode = "both"
                              THEN [i \in DOMAIN icons |->
                                        icons[i].componentName]
                              ELSE << >>,
          total           |-> IF mode = "direct" \/ mode = "both"
                              THEN Len(icons) ELSE 0 ]

----------------------------------------------------------------------------
\* The inputs of a run

Modes == { "direct", "registry", "both" }

UserConfigs ==
    { in @@ out @@ m @@ t @@ p :
        in  \in { Empty, [inputDir |-> ""], [inputDir |-> "icons"] },
        out \in { Empty, [outputDir |-> ""], [outputDir |-> "out"] },
        m   \in { Empty } \cup { [iconMode |-> x] : x \in Modes },
        t   \in { Empty, [typescript |-> FALSE] },
        p   \in { Empty, [postGenerate |-> "fmt"] } }

\* names a directory entry can have
FileNames ==
    { << "a", ".", "s", "v", "g" >>,
      << "A", ".", "s", "v", "g" >>,
      << "a", "-", "b", ".", "s", "v", "g" >>,
      << "1", "x", ".", "s", "v", "g" >>,
      << "@", ".", "s", "v", "g" >>,
      << "n", ".", "m", "d" >> }

\* a directory lists each entry once
Listings ==
    UNION { { l \in [1..n -> FileNames] :
                \A i, j \in 1..n : i # j => l[i] # l[j] } : n \in 0..MaxFiles }

\* fs.writeFileSync(path, content): overwrites unconditionally
WriteFile(files, name, content) ==
    [n \in DOMAIN files \cup { name } |->
        IF n = name THEN content ELSE files[n]]

NoIo == [ mkdir |-> {}, readdir |-> 0, read |-> 0, exec |-> 0 ]

NamesIdle ==
    /\ nameIn = << >>
    /\ nameOut = [done |-> FALSE, sanitizedName |-> << >>, icon |-> Null]

ColorIdle ==
    /\ colorIn = << >>
    /\ colorOut = [done |-> FALSE, markup |-> << >>]

Init ==
    /\ userConfig \in UserConfigs
    /\ config = Empty
    /\ fsDirs \in { {}, { "icons" }, { "icons", "out" } }
    /\ inputListing \in Listings
    /\ "icons" \notin fsDirs => inputListing = << >>
    /\ pc = "start"
    /\ exitCode = 0
    /\ svgFiles = << >>
    /\ idx = 1
    /\ envOk = << >>
    /\ processedIcons = << >>
    /\ wIdx = 1
    /\ outFiles = Empty
    /\ writes = << >>
    /\ io = NoIo
    /\ hook = "none"
    /\ NamesIdle
    /\ ColorIdle

----------------------------------------------------------------------------
\* generate(userConfig)

\* the validation and the merge with the defaults
Validate ==
    /\ pc = "start"
    /\ IF ConfigMissing(userConfig)
       THEN /\ pc' = "threw"
            /\ UNCHANGED config
       ELSE /\ pc' = "ensure"
            /\ config' = MergeConfig(userConfig)
    /\ UNCHANGED << userConfig, fsDirs, inputListing, exitCode, svgFiles, idx,
                    envOk, processedIcons, wIdx, outFiles, writes, io, hook,
                    nameIn, nameOut, colorIn, colorOut >>

\* ensureDirectoryExists(config.inputDir); ensureDirectoryExists(config.outputDir)
EnsureDirectories ==
    /\ pc = "ensure"
    /\ LET dirs == { config.inputDir, config.outputDir }
       IN  /\ io' = [io EXCEPT !.mkdir = dirs \ fsDirs]
           /\ fsDirs' = fsDirs \cup dirs
    /\ pc' = "discover"
    /\ UNCHANGED << userConfig, config, inputListing, exitCode, svgFiles, idx,
                    envOk, processedIcons, wIdx, outFiles, writes, hook,
                    nameIn, nameOut, colorIn, colorOut >>

\* readdirSync, the .svg filter and the exit on an empty result
Discover ==
    /\ pc = "discover"
    /\ svgFiles' = SelectSeq(inputListing, LAMBDA f : endsWith(f, DotSvg))
    /\ io' = [io EXCEPT !.readdir = @ + 1]
    /\ IF Len(svgFiles') = 0
       THEN pc' = "exited" /\ exitCode' = 1
       ELSE pc' = "process" /\ UNCHANGED exitCode
    /\ UNCHANGED << userConfig, config, fsDirs, inputListing, idx, envOk,
                    processedIcons, wIdx, outFiles, writes, hook,
                    nameIn, nameOut, colorIn, colorOut >>

\* one turn of the loop over svgFiles
ProcessFile ==
    /\ pc = "process"
    /\ idx <= Len(svgFiles)
    /\ \E env \in EnvOutcomes :
          LET result == processIcon(svgFiles[idx], env)
          IN  /\ processedIcons' = IF result # Null
                                   THEN Append(processedIcons, result)
                                   ELSE processedIcons
              /\ envOk' = Append(envOk, env.kind = "ok")
    /\ io' = [io EXCEPT !.read = @ + 1]
    /\ idx' = idx + 1
    /\ UNCHANGED << userConfig, config, fsDirs, inputListing, pc, exitCode,
                    svgFiles, wIdx, outFiles, writes, hook,
                    nameIn, nameOut, colorIn, colorOut >>

\* the test after the loop with the exit left out
NoneProcessed_never(icons) == FALSE

\* processedIcons.length === 0
NoneProcessed(icons) == Len(icons) = 0

\* the end of the loop and the exit when nothing was processed
CheckProcessed ==
    /\ pc = "process"
    /\ idx > Len(svgFiles)
    /\ IF NoneProcessed(processedIcons)
       THEN pc' = "exited" /\ exitCode' = 1
       ELSE pc' = "components" /\ UNCHANGED exitCode
    /\ UNCHANGED << userConfig, config, fsDirs, inputListing, svgFiles, idx,
                    envOk, processedIcons, wIdx, outFiles, writes, io, hook,
                    nameIn, nameOut, colorIn, colorOut >>

\* one turn of the loop over processedIcons: "always needed"
WriteComponent ==
    /\ pc = "components"
    /\ wIdx <= Len(processedIcons)
    /\ LET icon == processedIcons[wIdx]
           name == FileName(icon.componentName,
                            getFileExtension(config.typescript))
       IN  /\ outFiles' = WriteFile(outFiles, name,
                                    generateIconComponent(icon, config))
           /\ writes' = Append(writes, name)
    /\ wIdx' = wIdx + 1
    /\ UNCHANGED << userConfig, config, fsDirs, inputListing, pc, exitCode,
                    svgFiles, idx, envOk, processedIcons, io, hook,
                    nameIn, nameOut, colorIn, colorOut >>

\* the registry written in every mode
WritesRegistry_always(cfg) == TRUE

\* mode === 'registry' || mode === 'both'
WritesRegistry(cfg) == ModeOf(cfg) = "registry" \/ ModeOf(cfg) = "both"

\* the registry and the wrapper, when the mode asks for them
WriteRegistry ==
    /\ pc = "components"
    /\ wIdx > Len(processedIcons)
    /\ LET ext      == getFileExtension(config.typescript)
           registry == FileName(RegistryBase, ext)
           wrapper  == FileName(WrapperBase, ext)
       IN  IF WritesRegistry(config)
           THEN /\ outFiles' =
                      WriteFile(
                          WriteFile(outFiles, registry,
                                    generateIconRegistry(processedIcons, config)),
                          wrapper, generateIconWrapper(config))
                /\ writes' = writes \o << registry, wrapper >>
           ELSE UNCHANGED << outFiles, writes >>
    /\ pc' = "index"
    /\ UNCHANGED << userConfig, config, fsDirs, inputListing, exitCode,
                    svgFiles, idx, envOk, processedIcons, wIdx, io, hook,
                    nameIn, nameOut, colorIn, colorOut >>

WriteIndex ==
    /\ pc = "index"
    /\ LET name == FileName(IndexBase,
                            IndexExtension(getFileExtension(config.typescript)))
       IN  /\ outFiles' = WriteFile(outFiles, name,
                                    generateIndexFile(processedIcons, config))
           /\ writes' = Append(writes, name)
    /\ pc' = "postGenerate"
    /\ UNCHANGED << userConfig, config, fsDirs, inputListing, exitCode,
                    svgFiles, idx, envOk, processedIcons, wIdx, io, hook,
                    nameIn, nameOut, colorIn, colorOut >>

\* the command's rejection escaping generate
AfterHook_rethrow(ok) == IF ok THEN "done" ELSE "threw"

\* try { await execAsync(...) } catch { console.error(...) }
AfterHook(ok) == "done"

\* the post-generate command, when one is configured, and the end of the run
PostGenerate ==
    /\ pc = "postGenerate"
    /\ IF ~Falsy(config, "postGenerate")
       THEN \E ok \in BOOLEAN :
               /\ io' = [io EXCEPT !.exec = @ + 1]
               /\ hook' = IF ok THEN "completed" ELSE "failed"
               /\ pc' = AfterHook(ok)
       ELSE /\ pc' = "done"
            /\ UNCHANGED << io, hook >>
    /\ UNCHANGED << userConfig, config, fsDirs, inputListing, exitCode,
                    svgFiles, idx, envOk, processedIcons, wIdx, outFiles,
                    writes, nameIn, nameOut, colorIn, colorOut >>

Next ==
    \/ Validate
    \/ EnsureDirectories
    \/ Discover
    \/ ProcessFile
    \/ CheckProcessed
    \/ WriteComponent
    \/ WriteRegistry
    \/ WriteIndex
    \/ PostGenerate

Spec == Init /\ [][Next]_vars

\* generate is a single thread of control: as long as the calls it awaits
\* return, a step that can be taken is taken
SpecFair == Spec /\ WF_vars(Next)

----------------------------------------------------------------------------
\* SpecNames: processIcon's name derivation on every short file name

RunIdle ==
    /\ userConfig = Empty
    /\ config = Empty
    /\ fsDirs = {}
    /\ inputListing = << >>
    /\ pc = "idle"
    /\ exitCode = 0
    /\ svgFiles = << >>
    /\ idx = 1
    /\ envOk = << >>
    /\ processedIcons = << >>
    /\ wIdx = 1
    /\ outFiles = Empty
    /\ writes = << >>
    /\ io = NoIo
    /\ hook = "none"

\* characters of the enumerated names: the letters of ".svg", an upper-case
\* letter, a digit, a separator and a character outside [a-zA-Z0-9-]
NameAlphabet == { ".", "s", "v", "g", "B", "1", "-", "@" }

ShortNames == UNION { [1..n -> NameAlphabet] : n \in 0..MaxNameLen }

InitNames ==
    /\ RunIdle
    /\ ColorIdle
    /\ nameIn \in ShortNames
    /\ nameOut = [done |-> FALSE, sanitizedName |-> << >>, icon |-> Null]

DeriveName ==
    /\ ~nameOut.done
    /\ \E env \in EnvOutcomes :
          nameOut' = [ done          |-> TRUE,
                       sanitizedName |-> sanitizeFileName(nameIn),
                       icon          |-> processIcon(nameIn, env) ]
    /\ UNCHANGED << runVars, nameIn, colorIn, colorOut >>

SpecNames == InitNames /\ [][DeriveName]_vars

----------------------------------------------------------------------------
\* SpecColor: the colour normalisation on the markup of one element

AttrNames ==
    { << "f", "i", "l", "l" >>,
      << "s", "t", "r", "o", "k", "e" >>,
      << "f", "i", "l", "l", "-", "r", "u", "l", "e" >>,
      << "d" >> }

AttrValues ==
    { None,
      CurrentColor,
      << "r", "e", "d" >>,
      << "#", "f", "0", "0" >>,
      << "n", "o", "n", "e", "x", "i", "s", "t", "e", "n", "t" >> }

Attrs == [name : AttrNames, value : AttrValues]

AttrLists == UNION { [1..n -> Attrs] : n \in 0..MaxAttrs }

RECURSIVE AttrText(_)
AttrText(attrs) ==
    IF attrs = << >> THEN << >>
    ELSE << " " >> \o Head(attrs).name \o << "=" >> \o Quote
            \o Head(attrs).value \o Quote \o AttrText(Tail(attrs))

\* <path name="value" ... />
ElementMarkup(attrs) ==
    << "<", "p", "a", "t", "h" >> \o AttrText(attrs) \o << "/", ">" >>

InitColor ==
    /\ RunIdle
    /\ NamesIdle
    /\ colorIn \in AttrLists
    /\ colorOut = [done |-> FALSE, markup |-> << >>]

NormalizeColors ==
    /\ ~colorOut.done
    /\ colorOut' = [ done   |-> TRUE,
                     markup |-> normalizeColors(ElementMarkup(colorIn)) ]
    /\ UNCHANGED << runVars, nameIn, nameOut, colorIn >>

SpecColor == InitColor /\ [][NormalizeColors]_vars

----------------------------------------------------------------------------
\* Vocabulary of the properties

\* the run has a merged configuration
Merged == pc \notin { "idle", "start", "threw" }

Ext == getFileExtension(config.typescript)

RegistryFile == FileName(RegistryBase, Ext)

WrapperFile == FileName(WrapperBase, Ext)

IndexFile == FileName(IndexBase, IndexExtension(Ext))

Written == DOMAIN outFiles

ComponentFiles == { n \in Written : outFiles[n].kind = "component" }

ComponentFileOf(icon) == FileName(icon.componentName, Ext)

Range(seq) == { seq[i] : i \in DOMAIN seq }

\* the files a finished run is to have written
AllOutputs ==
    { ComponentFileOf(icon) : icon \in Range(processedIcons) }
        \cup (IF ModeOf(config) \in { "registry", "both" }
              THEN { RegistryFile, WrapperFile } ELSE {})
        \cup { IndexFile }

\* file i of svgFiles failed: its read or its svgo call threw, or its name
\* sanitizes to nothing
Failed(i) == ~envOk[i] \/ sanitizeFileName(svgFiles[i]) = << >>

RECURSIVE SucceededUpTo(_)
\* the files among the first k of svgFiles that did not fail, in order
SucceededUpTo(k) ==
    IF k = 0 THEN << >>
    ELSE SucceededUpTo(k - 1)
            \o (IF Failed(k) THEN << >> ELSE << svgFiles[k] >>)

ProcessedNames == [i \in DOMAIN processedIcons |-> processedIcons[i].originalFile]

Terminal == pc \in { "idle", "done", "threw", "exited" }

\* a JavaScript identifier over the ASCII characters
ValidIdentifier(s) ==
    /\ s # << >>
    /\ s[1] \in UpperChars \cup LowerChars \cup { "_", "$" }
    /\ \A i \in DOMAIN s :
          s[i] \in UpperChars \cup LowerChars \cup DigitChars \cup { "_", "$" }

----------------------------------------------------------------------------
\* Properties

\* C1: a finished run in mode 'both' over N .svg files that were all
\* processed leaves exactly N distinct component files, IconRegistry, Icon
\* and the index, and the index's direct exports list all N components.
C1_BothModeOutputs ==
    (pc = "done" /\ ModeOf(config) = "both"
        /\ Len(processedIcons) = Len(svgFiles)) =>
        LET N == Len(svgFiles)
        IN  /\ Cardinality(ComponentFiles) = N
            /\ Written = ComponentFiles \cup { RegistryFile, WrapperFile, IndexFile }
            /\ Cardinality(Written) = N + 3
            /\ outFiles[RegistryFile].kind = "registry"
            /\ outFiles[WrapperFile].kind = "wrapper"
            /\ outFiles[IndexFile].directExports
            /\ Len(outFiles[IndexFile].direct) = N
            /\ \A icon \in Range(processedIcons) :
                  icon.componentName \in Range(outFiles[IndexFile].direct)

\* C2: in mode 'direct' neither the IconRegistry file nor the Icon wrapper
\* file is ever written, and once the index is written it holds the direct
\* exports and not the registry exports.
C2_DirectModeNoRegistry ==
    (Merged /\ ModeOf(config) = "direct") =>
        /\ RegistryFile \notin Written
        /\ WrapperFile \notin Written
        /\ \A n \in Written : outFiles[n].kind \notin { "registry", "wrapper" }
        /\ pc \in { "postGenerate", "done" } =>
              /\ IndexFile \in Written
              /\ outFiles[IndexFile].kind = "index"
              /\ outFiles[IndexFile].directExports
              /\ ~outFiles[IndexFile].registryExports

C2_Witness ==
    /\ pc = "done"
    /\ ModeOf(config) = "direct"
    /\ Len(processedIcons) >= 1
    /\ IndexFile \in Written
    /\ ComponentFiles # {}

C4_Outcome ==
    /\ Merged => Len(envOk) = idx - 1
    /\ Merged => ProcessedNames = SucceededUpTo(Len(envOk))
    /\ pc \in { "components", "index", "postGenerate", "done" } =>
          /\ Len(envOk) = Len(svgFiles)
          /\ Len(processedIcons) >= 1
    /\ (pc = "exited" /\ Len(svgFiles) > 0) =>
          /\ Len(envOk) = Len(svgFiles)
          /\ \A i \in DOMAIN svgFiles : Failed(i)
    /\ pc = "done" =>
          /\ \A icon \in Range(processedIcons) :
                /\ ComponentFileOf(icon) \in Written
                /\ outFiles[ComponentFileOf(icon)].kind = "component"
          /\ IndexFile \in Written
    /\ Merged => pc # "threw"

\* C4: a file that fails is skipped and the loop goes on: the processed
\* icons are at every moment exactly the files tried so far that did not
\* fail, every file is tried before the run ends, the run ends early only
\* when no file succeeded, and once a file has succeeded the run goes on to
\* completion, with the component of every success and the index written.
C4_FailuresDoNotAbort ==
    /\ []C4_Outcome
    /\ (Len(processedIcons) >= 1) ~> (pc = "done")
    /\ <>Terminal

C4_Witness ==
    /\ pc = "done"
    /\ \E i, j \in DOMAIN svgFiles : i < j /\ ~envOk[i] /\ ~Failed(j)
    /\ Len(processedIcons) < Len(svgFiles)
    /\ ComponentFiles # {}

\* C5: output is written only after a success: a run in which no .svg file
\* is found, or in which every file fails, ends by process.exit(1) with no
\* file written, and a run past the test has at least one processed icon.
C5_NoOutputWithoutSuccess ==
    /\ (Written # {} \/ writes # << >>) => Len(processedIcons) >= 1
    /\ pc \in { "components", "index", "postGenerate", "done" } =>
          Len(processedIcons) >= 1
    /\ pc = "process" => Len(svgFiles) >= 1
    /\ pc = "exited" =>
          /\ exitCode # 0
          /\ Written = {}
          /\ writes = << >>
          /\ processedIcons = << >>
          /\ io.exec = 0

C5_Witness ==
    /\ pc = "exited"
    /\ exitCode = 1
    /\ Len(svgFiles) >= 2
    /\ Len(envOk) = Len(svgFiles)
    /\ \E i \in DOMAIN svgFiles : ~envOk[i]
    /\ Written = {}

\* C6: with inputDir or outputDir missing the run does nothing but throw:
\* no directory is created or listed, no file is read or written, no command
\* is run; and that is the only way the run throws.
C6_ConfigErrorBeforeIo ==
    /\ (pc # "idle" /\ (Falsy(userConfig, "inputDir")
                            \/ Falsy(userConfig, "outputDir"))) =>
          /\ pc \in { "start", "threw" }
          /\ io = NoIo
          /\ writes = << >>
          /\ Written = {}
          /\ hook = "none"
    /\ pc = "threw" =>
          Falsy(userConfig, "inputDir") \/ Falsy(userConfig, "outputDir")

C6_Witness ==
    /\ pc = "threw"
    /\ ~Falsy(userConfig, "inputDir")
    /\ Falsy(userConfig, "outputDir")
    /\ io = NoIo
    /\ inputListing # << >>

\* the state part of C7
C7_HookState ==
    /\ io.exec <= 1
    /\ io.exec = 1 <=> hook # "none"
    /\ hook # "none" =>
          /\ ~Falsy(config, "postGenerate")
          /\ pc = "done"
          /\ Written = AllOutputs
          /\ Len(writes) = Len(processedIcons) + 1
                + (IF ModeOf(config) = "direct" THEN 0 ELSE 2)
    /\ (pc = "done" /\ ~Falsy(config, "postGenerate")) => hook # "none"

\* the step part of C7
C7_HookStep ==
    (io'.exec # io.exec \/ hook' # hook) =>
        /\ pc = "postGenerate"
        /\ Written = AllOutputs
        /\ outFiles' = outFiles
        /\ writes' = writes
        /\ pc' = "done"

\* C7: the post-generate command runs only when every output file of the
\* run is written, at most once, and whether it succeeds or fails the run
\* ends as done with the written files unchanged.
C7_HookAfterWrites == []C7_HookState /\ [][C7_HookStep]_vars

C7_Witness ==
    /\ pc = "done"
    /\ hook = "failed"
    /\ io.exec = 1
    /\ Written = AllOutputs
    /\ Cardinality(Written) >= 4

\* C8: the result of sanitizeFileName holds only lower-case letters, digits
\* and hyphens, neither starts nor ends with a hyphen and has no two
\* adjacent hyphens.
C8_SanitizedShape ==
    nameOut.done =>
        LET s == nameOut.sanitizedName
        IN  /\ \A i \in DOMAIN s : s[i] \in LowerChars \cup DigitChars \cup { "-" }
            /\ s # << >> => (s[1] # "-" /\ s[Len(s)] # "-")
            /\ \A i \in 1..(Len(s) - 1) : ~(s[i] = "-" /\ s[i + 1] = "-")

C8_Witness ==
    /\ nameOut.done
    /\ nameIn = << "-", "B", "@", "-", "1" >>
    /\ nameOut.sanitizedName = << "b", "-", "1" >>

\* C9: for an accepted file componentName is PascalCase(sanitizedName) +
\* "Icon" and is a valid identifier, which does not start with a digit.
C9_ComponentNameValid ==
    (nameOut.done /\ nameOut.icon # Null) =>
        /\ nameOut.icon.sanitizedName = nameOut.sanitizedName
        /\ nameOut.icon.componentName =
              toPascalCase(nameOut.icon.sanitizedName) \o IconSuffix
        /\ ValidIdentifier(nameOut.icon.componentName)
        /\ nameOut.icon.componentName[1] \notin DigitChars

\* the markup the statement of C10 asks for: fill and stroke values other
\* than none and currentColor become currentColor, the rest is unchanged
ExpectedColors(attrs) ==
    ElementMarkup(
        [i \in DOMAIN attrs |->
            IF /\ attrs[i].name \in { << "f", "i", "l", "l" >>,
                                      << "s", "t", "r", "o", "k", "e" >> }
               /\ attrs[i].value \notin { None, CurrentColor }
            THEN [name |-> attrs[i].name, value |-> CurrentColor]
            ELSE attrs[i]])

\* C10: every fill="X" and stroke="X" with X other than none and
\* currentColor is rewritten to currentColor, and nothing else changes.
C10_ColorsNormalized ==
    colorOut.done => colorOut.markup = ExpectedColors(colorIn)

RECURSIVE SvgEntriesUpTo(_)
\* the .svg entries among the first k of the directory listing, in order
SvgEntriesUpTo(k) ==
    IF k = 0 THEN << >>
    ELSE SvgEntriesUpTo(k - 1)
            \o (IF endsWith(inputListing[k], DotSvg)
                THEN << inputListing[k] >> ELSE << >>)

ListedSvg == SvgEntriesUpTo(Len(inputListing))

RECURSIVE ListedSucceededUpTo(_)
\* the entries among the first k of ListedSvg that succeeded, in order
ListedSucceededUpTo(k) ==
    IF k = 0 THEN << >>
    ELSE ListedSucceededUpTo(k - 1)
            \o (IF envOk[k] /\ sanitizeFileName(ListedSvg[k]) # << >>
                THEN << ListedSvg[k] >> ELSE << >>)

\* the succeeded entries tried so far, in listing order
ListedSucceeded == ListedSucceededUpTo(Len(envOk))

ComponentNameOf(file) == toPascalCase(sanitizeFileName(file)) \o IconSuffix

\* the state part of C11
C11_Order ==
    /\ pc \in { "process", "components", "index", "postGenerate", "done" } =>
          svgFiles = ListedSvg
    /\ pc \in { "process", "components", "index", "postGenerate", "done" } =>
          ProcessedNames = ListedSucceeded
    /\ (Merged /\ pc # "ensure" /\ RegistryFile \in Written) =>
          /\ outFiles[RegistryFile].imports =
                [i \in DOMAIN ListedSucceeded |->
                    ComponentNameOf(ListedSucceeded[i])]
          /\ outFiles[RegistryFile].iconNames =
                [i \in DOMAIN ListedSucceeded |->
                    toCamelCase(sanitizeFileName(ListedSucceeded[i]))]
    /\ (Merged /\ pc # "ensure" /\ IndexFile \in Written
            /\ outFiles[IndexFile].directExports) =>
          outFiles[IndexFile].direct =
                [i \in DOMAIN ListedSucceeded |->
                    ComponentNameOf(ListedSucceeded[i])]
    /\ pc \in { "components", "index", "postGenerate", "done" } =>
          /\ wIdx - 1 <= Len(writes)
          /\ SubSeq(writes, 1, wIdx - 1) =
                [i \in 1..(wIdx - 1) |->
                    FileName(ComponentNameOf(ListedSucceeded[i]), Ext)]

\* the step part of C11: icons are appended to the list, one file at a time
C11_Step ==
    /\ idx' \in { idx, idx + 1 }
    /\ processedIcons' # processedIcons =>
          /\ idx' = idx + 1
          /\ Len(processedIcons') = Len(processedIcons) + 1
          /\ SubSeq(processedIcons', 1, Len(processedIcons)) = processedIcons
          /\ processedIcons'[Len(processedIcons')].originalFile = svgFiles[idx]

\* C11: files are processed and emitted in the order of the directory
\* listing: processedIcons is the subsequence of the listing's .svg entries
\* that succeeded, in listing order, and the registry's imports, its
\* iconNames, the index's direct exports and the component files written
\* follow that order.
C11_ListingOrder == []C11_Order /\ [][C11_Step]_vars

C11_Witness ==
    /\ pc = "done"
    /\ ModeOf(config) = "both"
    /\ Len(processedIcons) >= 2
    /\ processedIcons[1].componentName # processedIcons[2].componentName
    /\ outFiles[RegistryFile].imports =
          << processedIcons[1].componentName, processedIcons[2].componentName >>
    /\ outFiles[IndexFile].direct = outFiles[RegistryFile].imports
    /\ ProcessedNames = inputListing

====
